---- MODULE Spec2Model ----
(***************************************************************************)
(* Model of nitransforms.resampling.apply (src/nitransforms/resampling.py). *)
(*                                                                         *)
(* One call of apply is followed from its arguments to its result.  The    *)
(* arguments are drawn in Init; every action is one stretch of the         *)
(* function body.  Arrays are numpy arrays: a shape and the elements in C  *)
(* (row-major) order.  Coordinates in a source array's index space are     *)
(* kept in half-voxel units (the integer 3 stands for 1.5), world          *)
(* coordinates in whole units.                                             *)
(*                                                                         *)
(* nitransforms.base (ImageGrid, SpatialReference, _as_homogeneous), the   *)
(* transform classes and scipy.ndimage are not part of the file under      *)
(* study; they are modelled from the interfaces the specification gives    *)
(* them (sections 3, 4 and 6).                                             *)
(***************************************************************************)
EXTENDS Integers, Sequences, FiniteSets, TLC

VARIABLES
    call,        \* the arguments of apply, fixed for the call
    pc,          \* position in the body of apply
    reference,   \* local `reference` (a path is replaced by the loaded image)
    ref,         \* local `_ref`, the effective reference
    data,        \* local `data`
    targets,     \* local `targets`
    resampled,   \* local `resampled`
    moved,       \* the value returned
    err,         \* the exception raised, "" while none
    calls,       \* the collaborators called so far, in order
    field,       \* what transform.to_field was asked for and what it built
    headers      \* heap of header objects: id -> element type

vars == <<call, pc, reference, ref, data, targets, resampled, moved, err,
          calls, field, headers>>

----------------------------------------------------------------------------
(* Bounds of the model *)

\* len(transform) and the trailing axis of the source range over 1..MaxLen
MaxLen == 2
\* every axis of a grid has 1..MaxExt samples
MaxExt == 2

(* Program constants *)

\* rank at which the component check and the trailing-axis reshape apply
DataRank4 == 4
\* transform.ndim of a time/volume-indexed transform
TransformNdim4 == 4

----------------------------------------------------------------------------
(* numpy arrays *)

RECURSIVE Prod(_)
Prod(s) == IF s = <<>> THEN 1 ELSE Head(s) * Prod(Tail(s))

Reverse(s) == [i \in 1..Len(s) |-> s[Len(s) + 1 - i]]

\* multi-index (0-based) of the 0-based flat offset f, C order
RECURSIVE Unravel(_, _)
Unravel(f, shape) ==
    IF shape = <<>> THEN <<>>
    ELSE LET rest == Prod(Tail(shape))
         IN  <<f \div rest>> \o Unravel(f % rest, Tail(shape))

\* 0-based flat offset of a multi-index, C order
RECURSIVE Ravel(_, _)
Ravel(idx, shape) ==
    IF shape = <<>> THEN 0
    ELSE Head(idx) * Prod(Tail(shape)) + Ravel(Tail(idx), Tail(shape))

Array(shape, flat) == [shape |-> shape, flat |-> flat]
NoArray == Array(<<>>, <<>>)
Rank(a) == Len(a.shape)
Size(a) == Len(a.flat)
At(a, idx) == a.flat[Ravel(idx, a.shape) + 1]

\* a.T : the axes reversed
Transpose(a) ==
    LET tshape == Reverse(a.shape)
    IN  Array(tshape,
              [f \in 1..Size(a) |-> At(a, Reverse(Unravel(f - 1, tshape)))])

\* a.reshape(-1, cols): the elements keep their C order
ReshapeRows(a, cols) == Array(<<Size(a) \div cols, cols>>, a.flat)

\* a[..., np.newaxis]
NewAxis(a) == Array(a.shape \o <<1>>, a.flat)

----------------------------------------------------------------------------
(* Collaborators: grids and references (nitransforms.base) *)

\* A reference as the caller holds it.  kind: "none" (None), "path", "image",
\* "grid" (an ImageGrid) or "points" (a sampled surface, not a grid).
\* s, t: the affine scales every axis by s and moves the first by t.
\* hdr: the name of its header object on the heap, "None" for no header.
RefObj(kind, shape, s, t, hdr) ==
    [kind |-> kind, shape |-> shape, s |-> s, t |-> t, hdr |-> hdr]
NoneRef == RefObj("none", <<>>, 1, 0, "None")

\* nibabel's load of a path: the image stored there
nbload(r) == [r EXCEPT !.kind = "image"]

\* SpatialReference.factory: an ImageGrid of the first three axes of an image
\* or grid, sharing its affine and header; anything else stays a point set
factory(r) ==
    IF r.kind \in {"image", "grid"}
    THEN RefObj("grid", SubSeq(r.shape, 1, 3), r.s, r.t, r.hdr)
    ELSE RefObj("points", r.shape, r.s, r.t, "None")

\* number of samples of a reference
npoints(r) == Prod(r.shape)

\* ImageGrid.ndindex: every index of the grid, the last axis fastest
ndindex(shape) == [n \in 1..Prod(shape) |-> Unravel(n - 1, shape)]

\* ImageGrid.ras: index -> world through the affine
ras(r, ijk) == <<r.s * ijk[1] + r.t, r.s * ijk[2], r.s * ijk[3]>>

\* _ref.ndcoords.T : one row of world coordinates per sample, shape (N, 3)
ndcoordsT(r) ==
    LET N   == npoints(r)
        pts == IF r.kind = "grid"
               THEN [n \in 1..N |-> ras(r, ndindex(r.shape)[n])]
               ELSE [n \in 1..N |-> <<n - 1, 0, 0>>]
    IN  Array(<<N, 3>>, [f \in 1..(3 * N) |-> pts[((f - 1) \div 3) + 1][((f - 1) % 3) + 1]])

\* ImageGrid(spatialimage).index(x): world -> continuous index of the source
\* grid, inverse(affine) . x.T with the homogeneous row dropped.  The result
\* has the three components on its first axis.  Half-voxel units.
index(img, x) ==
    LET xt   == Transpose(x)
        rest == Prod(Tail(xt.shape))
        off(c) == IF c = 0 THEN img.t ELSE 0
    IN  Array(xt.shape,
              [f \in 1..Size(xt) |->
                  (2 * (xt.flat[f] - off((f - 1) \div rest))) \div img.s])

\* _as_homogeneous(xyz, dim=3): a column of ones appended to an (n, 3) array;
\* an array that is already dim + 1 wide is returned as it is.  One voxel is
\* two half-voxel units.
as_homogeneous(a) ==
    LET n == a.shape[1]
        w == a.shape[2]
    IN  IF w = 3 + 1 THEN a
        ELSE Array(<<n, w + 1>>,
                   [f \in 1..(n * (w + 1)) |->
                       IF (f - 1) % (w + 1) = w THEN 2
                       ELSE a.flat[((f - 1) \div (w + 1)) * w + ((f - 1) % (w + 1)) + 1]])

----------------------------------------------------------------------------
(* Collaborators: the transform *)

\* number of coordinate sets transform.map returns: one per mapped volume of
\* a 4-D transform
nsets(xfm) == IF xfm.ndim = TransformNdim4 THEN xfm.len ELSE 0

\* transform.map(x), x of shape (N, 3): a translation along the first axis,
\* by xfm.shift for a 3-D transform (shape (N, 3)) and by (v + 1) * xfm.shift
\* for volume v of a 4-D transform (shape (len, N, 3))
map(xfm, x) ==
    LET N == x.shape[1]
    IN  IF nsets(xfm) = 0
        THEN Array(x.shape,
                   [f \in 1..Size(x) |->
                       x.flat[f] + (IF (f - 1) % 3 = 0 THEN xfm.shift ELSE 0)])
        ELSE Array(<<xfm.len, N, 3>>,
                   [f \in 1..(xfm.len * N * 3) |->
                       x.flat[((f - 1) % (N * 3)) + 1]
                       + (IF (f - 1) % 3 = 0
                          THEN (((f - 1) \div (N * 3)) + 1) * xfm.shift ELSE 0)])

\* transform.to_field(reference=r): the dense field of the transform on the
\* grid of r, on the transform's own reference when r is None
to_field(xfm, r) ==
    [asked |-> r,
     grid  |-> IF r.kind = "none" THEN xfm.reference ELSE factory(r)]

\* to_field(...).map(x): the field maps as the transform it was built from
field_map(fld, xfm, x) == map(xfm, x)

----------------------------------------------------------------------------
(* Collaborators: the source image *)

\* shape of the image's data array: three spatial axes, a trailing axis of
\* k components at rank 4, one more axis at rank 5
SourceShape(img) ==
    IF img.rank = 3 THEN img.shape
    ELSE IF img.rank = 4 THEN img.shape \o <<img.k>>
    ELSE img.shape \o <<img.k, 1>>

\* np.asanyarray(spatialimage.dataobj): pairwise distinct samples, none of
\* them a fill value the calls use
dataobj(img) ==
    Array(SourceShape(img), [f \in 1..Prod(SourceShape(img)) |-> 10 + f])

----------------------------------------------------------------------------
(* Collaborators: scipy.ndimage.map_coordinates *)

Orders == 0..5
Modes == {"constant", "nearest", "reflect", "mirror", "wrap"}

\* the value standing for a weighted blend of several samples
Blend == 0 - 1

\* floor(x + 0.5) of a coordinate in half-voxel units
Nearest(h) == (h + 1) \div 2

\* whether a coordinate lies outside [0, n - 1]
Outside(h, n) == h < 0 \/ h > 2 * (n - 1)

\* the sample a boundary mode substitutes for the integer index i of an axis
\* of n samples
Extend(mode, i, n) ==
    IF i >= 0 /\ i < n THEN i
    ELSE IF mode = "nearest" THEN (IF i < 0 THEN 0 ELSE n - 1)
    ELSE IF mode = "wrap" THEN i % n
    ELSE IF mode = "reflect"
         THEN LET j == i % (2 * n) IN IF j < n THEN j ELSE 2 * n - 1 - j
    ELSE IF n = 1 THEN 0
         ELSE LET j == i % (2 * (n - 1)) IN IF j < n THEN j ELSE 2 * (n - 1) - j

\* one interpolated value: the sample nearest to coordinate tuple h at order
\* 0; the stored sample at an integer tuple when order is 1, or is above 1
\* on prefiltered data inside the array; cval outside the array in constant
\* mode; a blend of samples otherwise
Sample(input, h, order, mode, cval, prefilter) ==
    LET r    == Rank(input)
        out  == \E c \in 1..r : Outside(h[c], input.shape[c])
        frac == \E c \in 1..r : h[c] % 2 # 0
        near == [c \in 1..r |-> Extend(mode, Nearest(h[c]), input.shape[c])]
    IN  IF mode = "constant" /\ out THEN cval
        ELSE IF order = 0 THEN At(input, near)
        ELSE IF frac THEN Blend
        ELSE IF order = 1 \/ (prefilter /\ ~out) THEN At(input, near)
        ELSE Blend

\* the error map_coordinates raises for its arguments, "" for none
map_coordinates_error(input, coordinates, order, mode) ==
    IF order \notin Orders THEN "RuntimeError: spline order not supported"
    ELSE IF coordinates.shape[1] # Rank(input)
         THEN "RuntimeError: invalid shape for coordinate array"
    ELSE IF mode \notin Modes THEN "RuntimeError: boundary mode not supported"
    ELSE ""

\* map_coordinates(input, coordinates, ...), coordinates of shape (rank, P):
\* one value per column of coordinates
map_coordinates(input, coordinates, order, mode, cval, prefilter) ==
    LET P == coordinates.shape[2]
        r == coordinates.shape[1]
    IN  Array(<<P>>,
              [p \in 1..P |->
                  Sample(input, [c \in 1..r |-> coordinates.flat[(c - 1) * P + p]],
                         order, mode, cval, prefilter)])

----------------------------------------------------------------------------
(* Faulty variants of the expressions of apply.  Each property below is   *)
(* checked to fail when one of them takes the place of the expression it  *)
(* varies.                                                                *)

\* the transform's own reference wins over the one given
EffectiveReferenceOwnFirst(xfm, r) ==
    IF xfm.reference.kind # "none" THEN xfm.reference
    ELSE IF r.kind = "none" THEN xfm.reference ELSE factory(r)

\* only a last axis shorter than len(transform) is refused
ComponentMismatchShorter(d, xfm) ==
    Rank(d) = DataRank4 /\ d.shape[Rank(d)] < xfm.len

\* to_field is called without the reference
FieldReferenceDropped(r, eff) == NoneRef

\* the mapped world coordinates are used as indices, the source affine is
\* never inverted
MappedTargetsWorld(xfm, img, r, eff) ==
    LET w == Transpose(map(xfm, ndcoordsT(eff)))
    IN  Array(w.shape, [f \in 1..Size(w) |-> 2 * w.flat[f]])

\* cval is not handed on: the interpolation fills with its default, 0.0
InterpArgsDefaultCval(c) ==
    [order |-> c.order, mode |-> c.mode, cval |-> 0, prefilter |-> c.prefilter]

\* an order outside 0..5 is clamped and an unknown mode replaced
InterpArgsCoerced(c) ==
    [order |-> IF c.order < 0 THEN 0 ELSE IF c.order > 5 THEN 5 ELSE c.order,
     mode |-> IF c.mode \in Modes THEN c.mode ELSE "constant",
     cval |-> c.cval, prefilter |-> c.prefilter]

\* the reference's header itself is handed to the result
HeaderAlias(h) == h

\* the trailing axis is restored only above rank 4
OutShapeAbove4(eff, d) ==
    IF Rank(d) <= DataRank4 THEN eff.shape ELSE eff.shape \o <<0 - 1>>

----------------------------------------------------------------------------
(* The body of apply, expression by expression *)

\* lines 76-77: a reference given as a path is loaded
LoadReference(r) == IF r.kind = "path" THEN nbload(r) ELSE r

\* lines 79-83: the transform's own reference when none is given, else a
\* spatial reference built from the one given
EffectiveReference(xfm, r) ==
    IF r.kind = "none" THEN xfm.reference ELSE factory(r)

\* line 93: the data is 4-D and its last axis is not len(transform) long
ComponentMismatch(d, xfm) ==
    Rank(d) = DataRank4 /\ d.shape[Rank(d)] # xfm.len

\* lines 98-99: one axis is appended to data of lower rank than the transform
Pad(d, xfm) == IF Rank(d) < xfm.ndim THEN NewAxis(d) ELSE d

\* line 102: the transform has a callable to_field
HasToField(xfm) == xfm.toField

\* lines 105 and 111: the reference to_field is asked for
FieldReference(r, eff) == r

\* lines 103-112: the coordinates of the effective reference, mapped through
\* the field or the transform, as indices of the source image
MappedTargets(xfm, img, r, eff) ==
    IF HasToField(xfm)
    THEN index(img, field_map(to_field(xfm, FieldReference(r, eff)), xfm, ndcoordsT(eff)))
    ELSE index(img, map(xfm, ndcoordsT(eff)))

\* lines 114-115: for a 4-D transform, rows of three consecutive elements,
\* a homogeneous column appended, transposed
Reshape4D(xfm, t) ==
    IF xfm.ndim = TransformNdim4
    THEN Transpose(as_homogeneous(ReshapeRows(t, t.shape[1])))
    ELSE t

\* lines 120-124: the caller's parameters, handed on as they are
InterpArgs(c) ==
    [order |-> c.order, mode |-> c.mode, cval |-> c.cval,
     prefilter |-> c.prefilter]

\* line 130: the header the result carries is a copy
HeaderCopy(h) == "copy"

\* line 131: output_dtype or spatialimage.get_data_dtype()
HeaderDtype(c) ==
    IF c.output_dtype # "None" THEN c.output_dtype ELSE c.spatialimage.dtype

\* line 133: the shape asked of resampled.reshape, -1 for the axis to infer
OutShape(eff, d) ==
    IF Rank(d) < DataRank4 THEN eff.shape ELSE eff.shape \o <<0 - 1>>

\* numpy's reshape: whether n elements fit the shape, and the shape with its
\* -1 axis inferred
Fits(n, shape) ==
    LET known == Prod(SelectSeq(shape, LAMBDA x : x >= 0))
    IN  IF \E i \in 1..Len(shape) : shape[i] < 0
        THEN known > 0 /\ n % known = 0
        ELSE n = known
Inferred(n, shape) ==
    LET known == Prod(SelectSeq(shape, LAMBDA x : x >= 0))
    IN  [i \in 1..Len(shape) |-> IF shape[i] < 0 THEN n \div known ELSE shape[i]]

NoResult == [kind |-> "none", array |-> NoArray, s |-> 1, t |-> 0, hdr |-> "None"]
NoField == [asked |-> NoneRef, grid |-> NoneRef]

----------------------------------------------------------------------------
(* The calls considered *)

Shapes == {<<a, b, c>> : a \in 1..MaxExt, b \in 1..MaxExt, c \in 1..MaxExt}
\* affines <<s, t>>: the identity, and a scaling by two with a translation
Affines == {<<1, 0>>, <<2, 1>>}

Transform(ndim, len, toField, shift, own) ==
    [ndim |-> ndim, len |-> len, toField |-> toField, shift |-> shift,
     reference |-> own]

Image(isPath, rank, k, shape, s, t, dtype) ==
    [isPath |-> isPath, rank |-> rank, k |-> k, shape |-> shape, s |-> s,
     t |-> t, dtype |-> dtype]

Call(xfm, img, r, order, mode, cval, prefilter, output_dtype) ==
    [transform |-> xfm, spatialimage |-> img, reference |-> r, order |-> order,
     mode |-> mode, cval |-> cval, prefilter |-> prefilter,
     output_dtype |-> output_dtype]

\* rank and trailing length of the source: no trailing axis at rank 3
RankAndK == {<<3, 1>>} \cup {<<r, k>> : r \in {4, 5}, k \in 1..MaxLen}

\* references a caller may pass, and references a transform may declare
GivenRefs ==
    { NoneRef,
      RefObj("path", <<2, 1, 1>>, 1, 0, "reference.header"),
      RefObj("image", <<2, 1, 1>>, 1, 0, "reference.header"),
      RefObj("grid", <<1, 2, 1>>, 1, 1, "None"),
      RefObj("points", <<2>>, 1, 0, "None") }
OwnRefs ==
    { NoneRef,
      RefObj("grid", <<1, 1, 2>>, 1, 0, "transform.header"),
      RefObj("points", <<3>>, 1, 0, "None") }

\* the grid of an image, as a reference the caller passes
GridOf(img) == RefObj("image", img.shape, img.s, img.t, "reference.header")

\* calls that vary the references, the ranks, the dispatch and the parameters
\* that are validated, on one small source grid
ControlCalls ==
    { Call(Transform(nd, m, tf, 0, own),
           Image(ip, rk[1], rk[2], <<2, 1, 1>>, 1, 0, "f8"),
           r, o, md, 0, TRUE, od) :
        nd \in {3, 4}, m \in 1..MaxLen, tf \in BOOLEAN, own \in OwnRefs,
        ip \in BOOLEAN, rk \in RankAndK, r \in GivenRefs,
        o \in {0, 3, 6}, md \in {"constant", "cubic"}, od \in {"None", "f4"} }

\* calls that vary the grids, the mapping and the interpolation parameters,
\* resampling a source onto its own grid: a 3-D transform on a rank-3 source,
\* a 4-D transform on a rank-3 source and on one of len(transform) components
NumericCalls ==
    { Call(Transform(dr[1], m, FALSE, sh, NoneRef),
           Image(FALSE, dr[2], m, shp, af[1], af[2], "f8"),
           GridOf(Image(FALSE, dr[2], m, shp, af[1], af[2], "f8")),
           op[1], mc[1], mc[2], op[2], "None") :
        dr \in {<<3, 3>>, <<4, 3>>, <<4, 4>>}, m \in 1..MaxLen,
        sh \in {0 - 1, 0, 1}, shp \in Shapes, af \in Affines,
        op \in {<<0, TRUE>>, <<1, TRUE>>, <<3, TRUE>>, <<3, FALSE>>},
        mc \in {<<"constant", 0>>, <<"constant", 5>>} \cup
               {<<md, 0>> : md \in Modes \ {"constant"}} }

Init ==
    /\ call \in ControlCalls \cup NumericCalls
    /\ pc = "resolve"
    /\ reference = call.reference
    /\ ref = NoneRef
    /\ data = NoArray
    /\ targets = NoArray
    /\ resampled = NoArray
    /\ moved = NoResult
    /\ err = ""
    /\ calls = <<>>
    /\ field = NoField
    /\ headers = [h \in {"reference.header", "transform.header", "copy"} |->
                    IF h = "reference.header" THEN "i2"
                    ELSE IF h = "transform.header" THEN "u1" ELSE "free"]

----------------------------------------------------------------------------
(* The steps of apply *)

Raise(e) == pc' = "failed" /\ err' = e

\* lines 76-86
ResolveReference ==
    /\ pc = "resolve"
    /\ LET r   == LoadReference(reference)
           eff == EffectiveReference(call.transform, r)
       IN  /\ reference' = r
           /\ ref' = eff
           /\ calls' = calls
                \o (IF reference.kind = "path" THEN <<"nbload(reference)">> ELSE <<>>)
                \o (IF r.kind = "none" THEN <<"transform.reference">>
                    ELSE <<"SpatialReference.factory">>)
           /\ IF eff.kind = "none"
              THEN Raise("TransformError: Cannot apply transform without reference")
              ELSE pc' = "load" /\ err' = err
    /\ UNCHANGED <<call, data, targets, resampled, moved, field, headers>>

\* lines 88-91
LoadData ==
    /\ pc = "load"
    /\ data' = dataobj(call.spatialimage)
    /\ calls' = calls
         \o (IF call.spatialimage.isPath THEN <<"nbload(spatialimage)">> ELSE <<>>)
         \o <<"dataobj">>
    /\ pc' = "check"
    /\ UNCHANGED <<call, reference, ref, targets, resampled, moved, err, field,
                   headers>>

\* lines 93-99
CheckShape ==
    /\ pc = "check"
    /\ calls' = calls \o (IF Rank(data) = DataRank4 THEN <<"len(transform)">> ELSE <<>>)
    /\ IF ComponentMismatch(data, call.transform)
       THEN /\ Raise("ValueError: fourth dimension does not match")
            /\ data' = data
       ELSE /\ data' = Pad(data, call.transform)
            /\ pc' = "map"
            /\ err' = err
    /\ UNCHANGED <<call, reference, ref, targets, resampled, moved, field, headers>>

\* lines 101-115
MapTargets ==
    /\ pc = "map"
    /\ targets' = Reshape4D(call.transform,
                      MappedTargets(call.transform, call.spatialimage, reference, ref))
    /\ field' = IF HasToField(call.transform)
                THEN to_field(call.transform, FieldReference(reference, ref))
                ELSE field
    /\ calls' = calls
         \o (IF HasToField(call.transform)
             THEN <<"to_field", "field.map">> ELSE <<"map">>)
         \o <<"index">>
    /\ pc' = "interp"
    /\ UNCHANGED <<call, reference, ref, data, resampled, moved, err, headers>>

\* lines 117-125
Interpolate ==
    /\ pc = "interp"
    /\ LET a == InterpArgs(call)
           e == map_coordinates_error(data, targets, a.order, a.mode)
       IN  IF e # ""
           THEN /\ Raise(e)
                /\ calls' = calls \o <<"map_coordinates">>
                /\ resampled' = resampled
           ELSE /\ resampled' = map_coordinates(data, targets, a.order, a.mode,
                                                a.cval, a.prefilter)
                /\ calls' = calls \o <<"map_coordinates", "interpolation">>
                /\ pc' = "assemble"
                /\ err' = err
    /\ UNCHANGED <<call, reference, ref, data, targets, moved, field, headers>>

\* lines 127-139
Assemble ==
    /\ pc = "assemble"
    /\ IF ref.kind = "grid"
       THEN LET shape == OutShape(ref, data)
                hdr   == IF ref.hdr # "None" THEN HeaderCopy(ref.hdr) ELSE "None"
            IN  IF ~Fits(Size(resampled), shape)
                THEN /\ Raise("ValueError: cannot reshape array")
                     /\ headers' = IF hdr # "None"
                                   THEN [headers EXCEPT
                                            ![hdr] = HeaderDtype(call)]
                                   ELSE headers
                     /\ UNCHANGED <<moved, calls>>
                ELSE /\ headers' = IF hdr # "None"
                                   THEN [headers EXCEPT
                                            ![hdr] = HeaderDtype(call)]
                                   ELSE headers
                     /\ moved' = [kind |-> "image",
                                  array |-> Array(Inferred(Size(resampled), shape),
                                                  resampled.flat),
                                  s |-> ref.s, t |-> ref.t, hdr |-> hdr]
                     /\ calls' = calls
                          \o (IF hdr # "None"
                              THEN <<"header.copy", "set_data_dtype">> ELSE <<>>)
                          \o <<"reshape", "spatialimage.__class__">>
                     /\ pc' = "done"
                     /\ err' = err
       ELSE /\ moved' = [NoResult EXCEPT !.kind = "array", !.array = resampled]
            /\ pc' = "done"
            /\ UNCHANGED <<err, calls, headers>>
    /\ UNCHANGED <<call, reference, ref, data, targets, resampled, field>>

Next ==
    \/ ResolveReference
    \/ LoadData
    \/ CheckShape
    \/ MapTargets
    \/ Interpolate
    \/ Assemble

Spec == Init /\ [][Next]_vars

----------------------------------------------------------------------------
(* Vocabulary of the properties *)

Called(name) == \E i \in 1..Len(calls) : calls[i] = name
Count(name) == Cardinality({i \in 1..Len(calls) : calls[i] = name})
Finished == pc \in {"done", "failed"}
NoMapping == ~Called("map") /\ ~Called("to_field") /\ ~Called("field.map")
NoInterpolation == ~Called("map_coordinates") /\ ~Called("interpolation")
TransformErr == "TransformError: Cannot apply transform without reference"
ShapeErr == "ValueError: fourth dimension does not match"
InterpErrs == {"RuntimeError: spline order not supported",
               "RuntimeError: invalid shape for coordinate array",
               "RuntimeError: boundary mode not supported"}

xfm == call.transform
img == call.spatialimage

\* the source has a trailing component axis whose length is not len(transform)
Mismatch == img.rank = 4 /\ img.k # xfm.len
\* neither the caller nor the transform names a reference
NoReference == call.reference.kind = "none" /\ xfm.reference.kind = "none"

----------------------------------------------------------------------------
(* C1 *)

\* C1 as stated: every call whose source has a trailing component axis of a
\* length other than len(transform) fails with the shape-mismatch error,
\* before any coordinate mapping and before any interpolation.
C1_MismatchAlwaysShapeError ==
    Mismatch =>
        /\ NoMapping /\ NoInterpolation
        /\ Finished => (pc = "failed" /\ err = ShapeErr)

\* C1 amended: such a call never maps and never interpolates, and it fails:
\* with the shape-mismatch error when a reference is resolved, with the
\* missing-reference error (raised first) when none is.
C1_MismatchRejected ==
    Mismatch =>
        /\ NoMapping /\ NoInterpolation /\ ~Called("index")
        /\ Finished =>
              /\ pc = "failed"
              /\ err = IF NoReference THEN TransformErr ELSE ShapeErr

C1_Witness ==
    /\ Mismatch /\ ~NoReference
    /\ pc = "failed" /\ err = ShapeErr /\ Called("len(transform)")

----------------------------------------------------------------------------
(* C2 *)

\* C2: a call with reference=None on a transform without a reference fails
\* with the missing-reference error before the source is loaded or read,
\* before any mapping and any interpolation; a reference that is given is the
\* effective one, whatever the transform declares.
C2_MissingReferenceRejected ==
    /\ (NoReference /\ pc # "resolve") =>
          /\ pc = "failed" /\ err = TransformErr
          /\ ~Called("nbload(spatialimage)") /\ ~Called("dataobj")
          /\ NoMapping /\ NoInterpolation
    /\ (call.reference.kind # "none" /\ pc # "resolve") =>
          /\ err # TransformErr
          /\ ref.kind = (IF call.reference.kind = "points" THEN "points" ELSE "grid")
          /\ ref.shape = call.reference.shape
          /\ ref.s = call.reference.s /\ ref.t = call.reference.t
          /\ ref.hdr = call.reference.hdr

C2_Witness ==
    /\ NoReference /\ pc = "failed" /\ err = TransformErr
    /\ calls = <<"transform.reference">>

----------------------------------------------------------------------------
(* C3 *)

\* a 3-D identity transform, a rank-3 source, the source's own grid as the
\* effective reference, order >= 1, prefilter on, a supported mode
IdentityCase ==
    /\ xfm.ndim = 3 /\ xfm.shift = 0
    /\ img.rank = 3
    /\ LET eff == EffectiveReference(xfm, LoadReference(call.reference))
       IN  /\ eff.kind = "grid" /\ eff.shape = img.shape
           /\ eff.s = img.s /\ eff.t = img.t
    /\ call.order \in 1..5 /\ call.prefilter /\ call.mode \in Modes

\* the integer indices of a grid as a coordinate array of shape (3, N)
OwnIndices(shape) ==
    LET N == Prod(shape)
    IN  Array(<<3, N>>,
              [f \in 1..(3 * N) |->
                  2 * ndindex(shape)[((f - 1) % N) + 1][((f - 1) \div N) + 1]])

\* C3: resampling a source through the identity onto its own grid computes,
\* for every reference sample, that sample's own index, and returns the source
\* samples, element (i, j, k) of the result being element (i, j, k) of the
\* source.
C3_IdentityReproducesSource ==
    IdentityCase =>
        /\ pc # "failed"
        /\ pc \in {"interp", "assemble", "done"} => targets = OwnIndices(img.shape)
        /\ pc = "done" =>
              /\ moved.kind = "image"
              /\ moved.array.shape = img.shape
              /\ \A f \in 1..Prod(img.shape) :
                    At(moved.array, Unravel(f - 1, img.shape))
                        = At(dataobj(img), Unravel(f - 1, img.shape))

C3_Witness ==
    /\ IdentityCase /\ pc = "done"
    /\ img.shape = <<2, 2, 2>> /\ img.s = 2 /\ call.order = 3
    /\ At(moved.array, <<1, 0, 1>>) = 16

----------------------------------------------------------------------------
(* C4 *)

\* C4 as stated: the result of a successful call has the shape of the
\* effective reference, with a trailing axis of length len(transform) if and
\* only if the rank of the source exceeds transform.ndim.
C4_TrailingAxisIffRankAboveNdim ==
    pc = "done" =>
        moved.array.shape =
            IF img.rank > xfm.ndim THEN ref.shape \o <<xfm.len>> ELSE ref.shape

\* C4 amended: on an image grid the result has the shape of the grid, with a
\* trailing axis of length len(transform) if and only if the data array handed
\* to the interpolation has rank 4, which in a successful call is the case
\* exactly for a 4-D transform; on any other reference the result is the flat
\* array of interpolated values, one per coordinate tuple.
C4_OutputShape ==
    pc = "done" =>
        /\ Rank(data) >= 4 <=> xfm.ndim = 4
        /\ ref.kind = "grid" =>
              /\ moved.kind = "image"
              /\ moved.array.shape =
                    IF Rank(data) >= 4 THEN ref.shape \o <<xfm.len>> ELSE ref.shape
        /\ ref.kind # "grid" =>
              /\ moved.kind = "array"
              /\ moved.array.shape =
                    <<npoints(ref) * (IF xfm.ndim = 4 THEN xfm.len ELSE 1)>>

C4_Witness ==
    /\ pc = "done" /\ ref.kind = "grid"
    /\ xfm.ndim = 4 /\ xfm.len = 2 /\ img.rank = 3
    /\ moved.array.shape = ref.shape \o <<2>>

----------------------------------------------------------------------------
(* C5 *)

\* the index, in the source grid, of reference sample n (from 0) mapped by
\* volume v (from 0) of a 4-D transform: component c (from 0), half voxels
VolumeTarget(n, v, c) ==
    LET w == ndcoordsT(ref).flat[3 * n + c + 1]
    IN  IF c = 0 THEN (2 * (w + (v + 1) * xfm.shift - img.t)) \div img.s
        ELSE (2 * w) \div img.s

\* C5: with a 4-D transform of m volumes and a source of m components, the
\* coordinate tuples handed to the interpolation are (spatial index, volume
\* index) tuples: tuple n * m + v holds the index mapped for reference sample
\* n by volume v, followed by v; the result has the reference's shape with a
\* trailing axis of length m.
C5_PerVolumeTuples ==
    (xfm.ndim = 4 /\ img.rank = 4 /\ img.k = xfm.len /\ ref.kind = "grid"
        /\ pc \in {"interp", "assemble", "done"}) =>
        LET m == xfm.len
            P == npoints(ref) * m
        IN  /\ targets.shape = <<4, P>>
            /\ \A p \in 0..(P - 1) :
                  /\ targets.flat[3 * P + p + 1] = 2 * (p % m)
                  /\ \A c \in 0..2 :
                        targets.flat[c * P + p + 1] = VolumeTarget(p \div m, p % m, c)
            /\ pc = "done" => moved.array.shape = ref.shape \o <<m>>

----------------------------------------------------------------------------
(* C6 *)

\* the samples of the source
SourceValues == {dataobj(img).flat[f] : f \in 1..Prod(SourceShape(img))}

\* coordinate tuple p (from 1) of targets
Tuple(p) ==
    [c \in 1..targets.shape[1] |-> targets.flat[(c - 1) * targets.shape[2] + p]]

\* tuple p lies outside the data array
TupleOutside(p) ==
    \E c \in 1..Rank(data) : Outside(Tuple(p)[c], data.shape[c])

\* C6 as stated: at order 0 every value interpolated is a sample of the
\* source, for every mode and cval and for coordinates outside the array too.
C6_Order0OnlySourceValues ==
    (call.order = 0 /\ pc \in {"assemble", "done"}) =>
        \A p \in 1..Size(resampled) : resampled.flat[p] \in SourceValues

\* C6 amended: at order 0 every value interpolated is a sample of the source
\* or, in constant mode at a coordinate outside the array, cval.
C6_Order0SourceValueOrCval ==
    (call.order = 0 /\ pc \in {"assemble", "done"}) =>
        \A p \in 1..Size(resampled) :
            \/ resampled.flat[p] \in SourceValues
            \/ /\ call.mode = "constant" /\ TupleOutside(p)
               /\ resampled.flat[p] = call.cval

C6_Witness ==
    /\ call.order = 0 /\ pc = "done"
    /\ call.mode = "constant" /\ call.cval = 5
    /\ \E p \in 1..Size(resampled) : resampled.flat[p] = 5
    /\ \E p \in 1..Size(resampled) : resampled.flat[p] \in SourceValues

----------------------------------------------------------------------------
(* C7 *)

\* an order outside 0..5 or a mode that is none of the five
BadParameters == call.order \notin Orders \/ call.mode \notin Modes

\* C7 as stated: a call with an unsupported order or mode fails before the
\* source data is read, before map or to_field is called and before the
\* interpolation starts.
C7_ValidatedBeforeArrayWork ==
    BadParameters =>
        /\ ~Called("dataobj") /\ NoMapping /\ ~Called("interpolation")
        /\ Finished => pc = "failed"

\* C7 amended: such a call fails and nothing is interpolated or returned, the
\* value is never coerced; but apply does not validate the parameters itself:
\* unless the reference or the component check fails first, the error is the
\* one map_coordinates raises, after the source data was read and after the
\* coordinates were mapped.
C7_ValidatedByInterpolation ==
    BadParameters =>
        /\ pc # "done" /\ ~Called("interpolation") /\ moved = NoResult
        /\ pc = "failed" =>
              IF NoReference THEN err = TransformErr
              ELSE IF Mismatch THEN err = ShapeErr
              ELSE /\ err \in InterpErrs
                   /\ Called("dataobj") /\ Called("index")
                   /\ Called("map") \/ Called("field.map")
                   /\ calls[Len(calls)] = "map_coordinates"

C7_Witness ==
    /\ call.order = 6 /\ call.mode = "constant"
    /\ pc = "failed" /\ err = "RuntimeError: spline order not supported"
    /\ Called("dataobj") /\ Called("map")

----------------------------------------------------------------------------
(* C8 *)

\* the element type the result's header is to carry
WantedDtype ==
    IF call.output_dtype # "None" THEN call.output_dtype ELSE img.dtype

\* C8: on an image grid with a header the result carries the reference's
\* affine and a copy of the reference's header whose element type is
\* output_dtype when one was given and the source's on-disk type otherwise;
\* at no point of the call, failed or not, does a header of a reference
\* change, nor the reference the caller passed (beyond the loading of a path).
C8_HeaderCopiedInputsUntouched ==
    /\ headers["reference.header"] = "i2"
    /\ headers["transform.header"] = "u1"
    /\ reference.shape = call.reference.shape
    /\ reference.s = call.reference.s /\ reference.t = call.reference.t
    /\ reference.hdr = call.reference.hdr
    /\ (pc = "done" /\ ref.kind = "grid" /\ ref.hdr # "None") =>
          /\ moved.kind = "image"
          /\ moved.s = ref.s /\ moved.t = ref.t
          /\ moved.hdr \notin {"None", ref.hdr}
          /\ headers[moved.hdr] = WantedDtype

C8_Witness ==
    /\ pc = "done" /\ ref.hdr = "reference.header"
    /\ call.output_dtype = "None"
    /\ headers[moved.hdr] = "f8" /\ headers[ref.hdr] = "i2"

----------------------------------------------------------------------------
(* C9 *)

\* the coordinates have been mapped
MappingDone == Called("index")

----------------------------------------------------------------------------
(* C10 *)

\* C10: when the interpolation is invoked, every coordinate tuple has as many
\* components as the data array has axes, whatever the rank of the source and
\* whether the transform is 3-D or 4-D.
C10_TupleLengthIsDataRank ==
    pc = "interp" => targets.shape[1] = Rank(data)

====
